---- MODULE Spec2Model ----
(***************************************************************************)
(* Model of public/scripts/server.js: the POST /api/chat route (rate       *)
(* limiter, validation, Gemini chat session, the 15 s deadline race and    *)
(* the classification of failures into HTTP responses), the shutdown on a  *)
(* termination signal, and the page's hardware questionnaire and roulette.  *)
(*                                                                         *)
(* JavaScript values are tagged records [t, s, n]: t is the typeof tag,    *)
(* s the characters of a string, n the value of a number.  Strings that    *)
(* the code inspects (message, error.message) are sequences of characters  *)
(* so that trim() and includes() are computed, not assumed.                *)
(***************************************************************************)
EXTENDS Integers, Sequences, FiniteSets, TLC

VARIABLES env, hits, req, win, proc, page

vars == <<env, hits, req, win, proc, page>>

----------------------------------------------------------------------------
(* Bounds of the model *)

\* process.env.API_LIMIT as configured for the checked runs
API_LIMIT == 2
\* requests served one after another in the sequential specification
MaxSlots == 1
\* requests in flight at once in the concurrent specification
MaxInFlight == 2
\* requests a client sends within one window, at most
MaxPerWindow == 3
\* termination signals the process receives, at most
MaxSignals == 2
\* requests of the page to the AI service in flight at once, at most
MaxFetches == 2
\* steps the question index is followed below zero, at most
MaxUnderflow == 1
\* callbacks of the roulette's animation interval that run, at most
MaxTicks == 5
\* lever clicks that find the roulette busy, at most
MaxClicks == 3

----------------------------------------------------------------------------
(* JavaScript values *)

Undefined == [t |-> "undefined", s |-> <<>>, n |-> 0]
Null == [t |-> "null", s |-> <<>>, n |-> 0]
Str(s) == [t |-> "string", s |-> s, n |-> 0]
Num(n) == [t |-> "number", s |-> <<>>, n |-> n]

\* ToBoolean of a value, as the ! operator applies it
Truthy(v) ==
    CASE v.t = "undefined" -> FALSE
      [] v.t = "null" -> FALSE
      [] v.t = "string" -> Len(v.s) > 0
      [] v.t = "number" -> v.n # 0
      [] OTHER -> TRUE

WhiteSpace == {" ", "\t", "\n"}

RECURSIVE TrimStart(_)
TrimStart(s) ==
    IF s # <<>> /\ Head(s) \in WhiteSpace THEN TrimStart(Tail(s)) ELSE s

RECURSIVE TrimEnd(_)
TrimEnd(s) ==
    IF s # <<>> /\ s[Len(s)] \in WhiteSpace
    THEN TrimEnd(SubSeq(s, 1, Len(s) - 1))
    ELSE s

\* String.prototype.trim
Trim(s) == TrimEnd(TrimStart(s))

\* String.prototype.includes: needle occurs as a contiguous substring
Includes(s, needle) ==
    \E i \in 1..(Len(s) - Len(needle) + 1) :
        SubSeq(s, i, i + Len(needle) - 1) = needle

----------------------------------------------------------------------------
(* Error messages, character by character *)

NeedleTimeout == <<"T", "i", "m", "e", "o", "u", "t">>

NeedleInvalid == <<"i", "n", "v", "a", "l", "i", "d">>

\* new Error("Timeout na resposta da API"), rejected by the race timer
TimeoutMessage ==
    <<"T", "i", "m", "e", "o", "u", "t", " ", "n", "a", " ", "r",
      "e", "s", "p", "o", "s", "t", "a", " ", "d", "a", " ", "A",
      "P", "I">>

\* new Error("Resposta inv\u00e1lida da API"): the accented letter is one
\* character, a_acute, so the text holds no substring "invalid"
InvalidResponseMessage ==
    <<"R", "e", "s", "p", "o", "s", "t", "a", " ", "i", "n", "v",
      "a_acute", "l", "i", "d", "a", " ", "d", "a", " ", "A", "P",
      "I">>

\* message of the AbortError an aborted fetch rejects with
AbortMessage ==
    <<"T", "h", "i", "s", " ", "o", "p", "e", "r", "a", "t", "i",
      "o", "n", " ", "w", "a", "s", " ", "a", "b", "o", "r", "t",
      "e", "d">>

\* an upstream failure: the network call failed
FetchFailedMessage ==
    <<"f", "e", "t", "c", "h", " ", "f", "a", "i", "l", "e", "d">>

\* an upstream failure: the provider refused the request
InvalidArgumentMessage ==
    <<"R", "e", "q", "u", "e", "s", "t", " ", "c", "o", "n", "t",
      "a", "i", "n", "s", " ", "a", "n", " ", "i", "n", "v", "a",
      "l", "i", "d", " ", "a", "r", "g", "u", "m", "e", "n", "t">>

\* an upstream failure: the provider itself timed out
GatewayTimeoutMessage ==
    <<"5", "0", "4", " ", "G", "a", "t", "e", "w", "a", "y", " ",
      "T", "i", "m", "e", "o", "u", "t">>

\* TypeError of null.map(...)
NullMapMessage ==
    <<"C", "a", "n", "n", "o", "t", " ", "r", "e", "a", "d", " ",
      "p", "r", "o", "p", "e", "r", "t", "i", "e", "s", " ", "o",
      "f", " ", "n", "u", "l", "l", " ", "(", "r", "e", "a", "d",
      "i", "n", "g", " ", "'", "m", "a", "p", "'", ")">>

\* TypeError of a chatHistory that is no array
NotAFunctionMessage ==
    <<"c", "h", "a", "t", "H", "i", "s", "t", "o", "r", "y", ".",
      "m", "a", "p", " ", "i", "s", " ", "n", "o", "t", " ", "a",
      " ", "f", "u", "n", "c", "t", "i", "o", "n">>

\* TypeError of msg.role on a null turn
NullRoleMessage ==
    <<"C", "a", "n", "n", "o", "t", " ", "r", "e", "a", "d", " ",
      "p", "r", "o", "p", "e", "r", "t", "i", "e", "s", " ", "o",
      "f", " ", "n", "u", "l", "l", " ", "(", "r", "e", "a", "d",
      "i", "n", "g", " ", "'", "r", "o", "l", "e", "'", ")">>

----------------------------------------------------------------------------
(* Environment configuration (process.env), fixed when the process starts *)

UnsetEnv == "<unset>"

\* the fallback of process.env.API_LIMIT || 100
DefaultLimit == 100

\* the configurations checked: development with no model configured,
\* production with a model configured, and NODE_ENV unset with an empty
\* GEMINI_MODEL; API_LIMIT is set in each of them
EnvInputs ==
    { [NODE_ENV |-> "development", GEMINI_MODEL |-> UnsetEnv,
       API_LIMIT |-> [set |-> TRUE, n |-> API_LIMIT]],
      [NODE_ENV |-> "production", GEMINI_MODEL |-> "gemini-1.5-flash",
       API_LIMIT |-> [set |-> TRUE, n |-> API_LIMIT]],
      [NODE_ENV |-> UnsetEnv, GEMINI_MODEL |-> "",
       API_LIMIT |-> [set |-> TRUE, n |-> API_LIMIT]] }

\* the limit as it would be were the environment not read
ApiRequestLimitIgnoresEnv(e) == DefaultLimit

\* const API_REQUEST_LIMIT = process.env.API_LIMIT || 100
API_REQUEST_LIMIT(e) ==
    IF e.API_LIMIT.set THEN e.API_LIMIT.n ELSE DefaultLimit

\* the quota as it would be were it one too large
LimiterMaxOffByOne(e) == API_REQUEST_LIMIT(e) + 1

\* max: API_REQUEST_LIMIT, the quota handed to rateLimit({...})
LimiterMax(e) == API_REQUEST_LIMIT(e)

\* the model name as it would be without the fallback
ModelNameNoFallback(e) == e.GEMINI_MODEL

\* const modelName = process.env.GEMINI_MODEL || "gemini-pro"
ModelName(e) ==
    IF e.GEMINI_MODEL = UnsetEnv \/ e.GEMINI_MODEL = ""
    THEN "gemini-pro"
    ELSE e.GEMINI_MODEL

----------------------------------------------------------------------------
(* Responses *)

None == [def |-> FALSE, v |-> <<>>]
Some(v) == [def |-> TRUE, v |-> v]

NoData == [def |-> FALSE, response |-> "", timestamp |-> "", model |-> ""]

ErrRateLimited ==
    "Limite de requisicoes excedido. Tente novamente mais tarde."
ErrInvalidMessage ==
    "Mensagem invalida. Forneca um texto com pelo menos 5 caracteres."
ErrTimeout == "Tempo de resposta excedido. Tente novamente."
ErrGeneric ==
    "Erro ao processar sua solicitacao. Por favor, tente novamente."

\* the limiter's answer: its configured message, status 429
RateLimitedResponse ==
    [status |-> 429, success |-> FALSE, error |-> ErrRateLimited,
     details |-> None, data |-> NoData]

\* res.status(400).json({success: false, error: "Mensagem invalida..."})
ValidationResponse ==
    [status |-> 400, success |-> FALSE, error |-> ErrInvalidMessage,
     details |-> None, data |-> NoData]

\* the success response as it would be without its timestamp
SuccessResponseUnstamped(responseText, modelName) ==
    [status |-> 200, success |-> TRUE, error |-> "",
     details |-> None,
     data |-> [def |-> TRUE, response |-> responseText,
               timestamp |-> "", model |-> modelName]]

\* res.json({success: true, data: {response, timestamp, model, ...}})
SuccessResponse(responseText, modelName) ==
    [status |-> 200, success |-> TRUE, error |-> "",
     details |-> None,
     data |-> [def |-> TRUE, response |-> responseText,
               timestamp |-> "ISO-8601", model |-> modelName]]

\* statusCode = message.includes("Timeout") ? 504
\*            : message.includes("invalid") ? 400 : 500
StatusCode(message) ==
    IF Includes(message, NeedleTimeout) THEN 504
    ELSE IF Includes(message, NeedleInvalid) THEN 400
    ELSE 500

\* error: message.includes("Timeout") ? "Tempo de resposta..." : "Erro ao..."
ErrorText(message) ==
    IF Includes(message, NeedleTimeout) THEN ErrTimeout ELSE ErrGeneric

\* the details as they would be were the mode not checked
DetailsAlways(e, message) == Some(message)

\* details: process.env.NODE_ENV === "development" ? error.message : undefined
Details(e, message) ==
    IF e.NODE_ENV = "development" THEN Some(message) ELSE None

\* the response of the catch block for an error with this message
CatchResponse(e, message) ==
    [status |-> StatusCode(message), success |-> FALSE,
     error |-> ErrorText(message), details |-> Details(e, message),
     data |-> NoData]

----------------------------------------------------------------------------
(* Request payloads *)

Array(items) == [t |-> "array", s |-> <<>>, n |-> 0, items |-> items]
Turn(role, content) == [t |-> "object", role |-> role, content |-> content]

\* the validation as it would be without trim()
ValidMessageUntrimmed(message) ==
    ~ ( ~Truthy(message)
        \/ message.t # "string"
        \/ Len(message.s) < 5 )

\* !message || typeof message !== "string" || message.trim().length < 5
\* is the rejection; this is its negation
ValidMessage(message) ==
    ~ ( ~Truthy(message)
        \/ message.t # "string"
        \/ Len(Trim(message.s)) < 5 )

\* const { message, chatHistory = [] } = req.body: the default applies to
\* an absent (undefined) chatHistory only
ChatHistoryOf(body) ==
    IF body.chatHistory.t = "undefined" THEN Array(<<>>) ELSE body.chatHistory

\* the TypeError chatHistory.map(msg => ({role: msg.role, ...})) throws,
\* None when it returns
HistoryError(chatHistory) ==
    IF chatHistory.t = "null" THEN Some(NullMapMessage)
    ELSE IF chatHistory.t # "array" THEN Some(NotAFunctionMessage)
    ELSE IF \E i \in 1..Len(chatHistory.items) :
                chatHistory.items[i].t \in {"null", "undefined"}
         THEN Some(NullRoleMessage)
         ELSE None

\* the history as it would be were the turns mapped last to first
MapHistoryReversed(items) ==
    [i \in 1..Len(items) |->
        [role |-> items[Len(items) + 1 - i].role,
         parts |-> <<[text |-> items[Len(items) + 1 - i].content]>>]]

\* history: chatHistory.map(msg => ({role: msg.role, parts: [{text: msg.content}]}))
MapHistory(items) ==
    [i \in 1..Len(items) |->
        [role |-> items[i].role, parts |-> <<[text |-> items[i].content]>>]]

----------------------------------------------------------------------------
(* The adapter call chat.sendMessage(message, {signal}) as the handler sees  *)
(* it: when it settles relative to the 15 s deadline ("early": before it,    *)
(* "late": after it, "never"), whether it honors the abort signal by         *)
(* rejecting its pending call, and what it settles with.                     *)

NoResult == [defined |-> FALSE, hasResponse |-> FALSE, text |-> ""]
ResultText(text) == [defined |-> TRUE, hasResponse |-> TRUE, text |-> text]
ResultNoResponse == [defined |-> TRUE, hasResponse |-> FALSE, text |-> ""]

NoStub ==
    [delay |-> "none", honors |-> FALSE, kind |-> "none",
     result |-> NoResult, error |-> <<>>]
Resolves(delay, honors, result) ==
    [delay |-> delay, honors |-> honors, kind |-> "resolve",
     result |-> result, error |-> <<>>]
Rejects(delay, honors, message) ==
    [delay |-> delay, honors |-> honors, kind |-> "reject",
     result |-> NoResult, error |-> message]
Never(honors) ==
    [delay |-> "never", honors |-> honors, kind |-> "none",
     result |-> NoResult, error |-> <<>>]

----------------------------------------------------------------------------
(* The rate limiter's store: one hit counter per client key *)

\* the clients (req.ip) of the checked runs
Clients == {"10.0.0.1", "10.0.0.2"}

\* the store counts a hit of the key and returns the new total, in one step
StoreIncrement(h, key) == [h EXCEPT ![key] = @ + 1]

\* windowMs (one hour) after the key's first hit its counter starts anew
StoreReset(h, key) == [h EXCEPT ![key] = 0]

\* the limiter answers 429 once the key's total exceeds max
Limited(e, totalHits) == totalHits > LimiterMax(e)

\* the route as it would be with the limiter registered after the handler
RouteChainHandlerFirst == <<"handler", "limiter">>

\* app.post("/api/chat", limiter, async (req, res) => {...}): the
\* middleware of the route, in the order they run
RouteChain == <<"limiter", "handler">>

----------------------------------------------------------------------------
(* One request in flight *)

NoBody == [message |-> Undefined, chatHistory |-> Undefined]

\* pc: idle (slot free), awaiting (suspended at await Promise.race), done
\* timeout: the timer of line 120; raceTimer: the timer of line 125
\* log, ord: history of the request, read by the properties only
IdleSlot ==
    [pc |-> "idle", client |-> "", body |-> NoBody, totalHits |-> 0,
     model |-> "", history |-> <<>>, sends |-> 0, stub |-> NoStub,
     adapter |-> "none", aborts |-> 0, timeout |-> "unset",
     raceTimer |-> "unset", race |-> "none", sent |-> <<>>,
     log |-> <<>>, ord |-> 0]

\* res.json(...) / res.status(...).json(...): a response leaves
Respond(s, response) ==
    [s EXCEPT !.pc = "done",
              !.sent = Append(@, response),
              !.log = Append(@, "respond")]

\* catch (error) {...}
Catch(e, s, message) == Respond(s, CatchResponse(e, message))

\* the handler up to its first await: validation, model and chat session,
\* abort controller and its timer, the adapter call, the race and its timer
Handler(e, s, stub) ==
    LET message == s.body.message
        chatHistory == ChatHistoryOf(s.body)
        modelName == ModelName(e)
        built == [s EXCEPT !.model = modelName]
    IN  IF ~ValidMessage(message) THEN Respond(s, ValidationResponse)
        ELSE IF HistoryError(chatHistory).def
        THEN Catch(e, built, HistoryError(chatHistory).v)
        ELSE [built EXCEPT !.pc = "awaiting",
                           !.history = MapHistory(chatHistory.items),
                           !.timeout = "armed",
                           !.sends = @ + 1,
                           !.stub = stub,
                           !.adapter = "pending",
                           !.raceTimer = "armed",
                           !.race = "pending",
                           !.log = Append(@, "send")]

\* the race as it would be were every settlement to resume the handler
RacePendingAlways(race) == TRUE

\* Promise.race settles with the first of its promises to settle; a later
\* settlement of the other finds it settled and changes nothing
RacePending(race) == race = "pending"

\* the handler resumed with the race's result: clearTimeout(timeout), the
\* check of result?.response, the success response
OnFulfilled(e, s, result) ==
    LET cleared == [s EXCEPT !.race = "fulfilled",
                             !.timeout = IF @ = "armed" THEN "cleared" ELSE @,
                             !.log = Append(@, "clear")]
    IN  IF ~(result.defined /\ result.hasResponse)
        THEN Catch(e, cleared, InvalidResponseMessage)
        ELSE Respond(cleared, SuccessResponse(result.text, s.model))

\* the catch block as it would be were it to send once more before failing
OnRejectedRetries(e, s, message) ==
    IF s.sends < 2
    THEN [s EXCEPT !.sends = @ + 1, !.adapter = "pending",
                   !.race = "pending", !.log = Append(@, "send")]
    ELSE Catch(e, [s EXCEPT !.race = "rejected"], message)

\* the handler resumed with the race's rejection: the catch block
OnRejected(e, s, message) == Catch(e, [s EXCEPT !.race = "rejected"], message)

\* the adapter's promise settles as its stub says
SettleAdapter(e, s) ==
    LET settled == [s EXCEPT !.adapter = IF s.stub.kind = "resolve"
                                         THEN "resolved" ELSE "rejected",
                             !.log = Append(@, "settle")]
    IN  IF ~RacePending(s.race) THEN settled
        ELSE IF s.stub.kind = "resolve"
        THEN OnFulfilled(e, settled, s.stub.result)
        ELSE OnRejected(e, settled, s.stub.error)

\* the adapter's promise rejects because its signal was aborted
SettleAborted(e, s) ==
    LET settled == [s EXCEPT !.adapter = "rejected",
                             !.log = Append(@, "settle")]
    IN  IF ~RacePending(s.race) THEN settled
        ELSE OnRejected(e, settled, AbortMessage)

\* the abort timer as it would be were it an interval, armed again
AbortFiredRearmed(s) ==
    [s EXCEPT !.aborts = @ + 1, !.log = Append(@, "abort")]

\* setTimeout(() => controller.abort(), 15000) fires
AbortFired(s) ==
    [s EXCEPT !.timeout = "fired",
              !.aborts = @ + 1,
              !.log = Append(@, "abort")]

\* the race timer as it would be were its callback not to reject the race
RaceTimerFiredSilent(e, s) ==
    [s EXCEPT !.raceTimer = "fired", !.log = Append(@, "deadline")]

\* setTimeout(() => reject(new Error("Timeout na resposta da API")), 15000)
\* fires
RaceTimerFired(e, s) ==
    LET fired == [s EXCEPT !.raceTimer = "fired",
                           !.log = Append(@, "deadline")]
    IN  IF ~RacePending(s.race) THEN fired
        ELSE OnRejected(e, fired, TimeoutMessage)

\* the controller as it would be were one controller shared by the requests
ControllerAbortShared(q, r) ==
    [x \in DOMAIN q |->
        IF x = r \/ q[x].pc = "awaiting" THEN AbortFired(q[x]) ELSE q[x]]

\* const controller = new AbortController() is a local of the handler's
\* call: the timer of request r aborts the controller of request r
ControllerAbort(q, r) == [q EXCEPT ![r] = AbortFired(q[r])]

\* the adapter call is still pending and due before the deadline
EarlyPending(s) == s.adapter = "pending" /\ s.stub.delay = "early"

\* the adapter call is still pending and its signal is aborted, which it honors
AbortPending(s) == s.adapter = "pending" /\ s.stub.honors /\ s.aborts > 0

----------------------------------------------------------------------------
(* The http server and the process *)

\* server: listening, closing (handle closed, connections left), closed
\* signals: the termination signals received; closeCallbacks: the callbacks
\* registered by server.close; atSignal: the requests in flight when the
\* first signal arrived, read by the properties only
Listening ==
    [server |-> "listening", signals |-> <<>>, closeCallbacks |-> 0,
     exited |-> FALSE, atSignal |-> {}]

\* the listening server accepts a new connection
Accepting(p) == p.server = "listening" /\ ~p.exited

\* the requests in flight: a connection carries a request until its response
InFlight(q) == {r \in DOMAIN q : q[r].pc = "awaiting"}

\* the server as it would be were 'close' emitted with connections left
ServerDrainedAlways(q) == TRUE

\* no connection is left
ServerDrained(q) == InFlight(q) = {}

\* server.close(cb): the listening handle is closed, no new connection is
\* accepted, and cb waits for the 'close' event; on a server that is
\* closing already only the callback is added
ServerClose(p, q) ==
    [p EXCEPT !.server = IF @ = "listening" THEN "closing" ELSE @,
              !.closeCallbacks = @ + 1,
              !.atSignal = IF p.server = "listening" THEN InFlight(q) ELSE @]

\* the 'close' event
ServerClosed(p) == [p EXCEPT !.server = "closed"]

\* process.exit(0)
ProcessExit(p) == [p EXCEPT !.exited = TRUE]

----------------------------------------------------------------------------
(* Inputs of the checked runs *)

\* message: absent, a number, the empty string, a text of 8 characters that
\* trims to 4, and a text of 7 characters that trims to 5
MessageInputs ==
    { Undefined,
      Num(12345),
      Str(<<>>),
      Str(<<" ", " ", "a", "b", "c", "d", " ", " ">>),
      Str(<<" ", "a", "b", "c", "d", "e", "\n">>) }

\* chatHistory: absent, null, and two turns
ChatHistoryInputs ==
    { Undefined,
      Null,
      Array(<<Turn("user", "oi"), Turn("model", "ola")>>) }

\* every message with an absent chatHistory and with the two turns, and
\* the messages of 7 and 8 characters with a null chatHistory
BodyInputs ==
    [message : MessageInputs, chatHistory : ChatHistoryInputs \ {Null}]
    \cup { b \in [message : MessageInputs, chatHistory : {Null}] :
               b.message.t = "string" /\ Len(b.message.s) >= 5 }

StubInputs ==
    { Resolves("early", TRUE, ResultText("OK Compativel")),
      Resolves("early", TRUE, NoResult),
      Resolves("early", TRUE, ResultNoResponse),
      Rejects("early", TRUE, FetchFailedMessage),
      Rejects("early", TRUE, InvalidArgumentMessage),
      Rejects("early", TRUE, GatewayTimeoutMessage),
      Resolves("late", FALSE, ResultText("OK Compativel")),
      Never(FALSE),
      Never(TRUE) }

\* the client of the checked runs
SeqClients == {"10.0.0.1"}
SeqSlots == 1..MaxSlots

\* the concurrent specification: the inputs that tell the limiter's and
\* the race's cases apart
ConcSlots == 1..MaxInFlight

ConcBodyInputs ==
    { [message |-> Str(<<" ", " ", "a", "b", "c", "d", " ", " ">>),
       chatHistory |-> Undefined],
      [message |-> Str(<<" ", "a", "b", "c", "d", "e", "\n">>),
       chatHistory |-> Undefined] }

ConcStubInputs ==
    { Rejects("early", TRUE, FetchFailedMessage),
      Never(FALSE),
      Never(TRUE) }

\* the adapter calls of the specification with the event loop's progress
LiveStubInputs ==
    { Rejects("early", TRUE, FetchFailedMessage),
      Resolves("late", FALSE, ResultText("OK Compativel")),
      Never(FALSE),
      Never(TRUE) }

----------------------------------------------------------------------------
(* The page: the hardware questionnaire *)

\* const questions = [...]: five radio questions, each with 'other' as its
\* last option, and one text question
questions ==
    << [id |-> "os", type |-> "radio",
        options |-> <<"windows10", "windows7", "macos", "linux", "other">>],
       [id |-> "gpu", type |-> "radio",
        options |-> <<"gtx1060_up", "gtx1050", "radeon580", "intel_hd",
                      "other">>],
       [id |-> "ram", type |-> "radio",
        options |-> <<"4gb", "8gb", "16gb", "32gb", "other">>],
       [id |-> "cpu", type |-> "radio",
        options |-> <<"intel_i5", "intel_i7", "amd_ryzen5", "intel_i3",
                      "other">>],
       [id |-> "storage", type |-> "radio",
        options |-> <<"less_50gb", "50gb", "100gb", "250gb", "other">>],
       [id |-> "software", type |-> "text", options |-> <<>>] >>

\* questions[index] is defined; the indices of the code start at 0
HasQuestion(index) == index \in 0..(Len(questions) - 1)

QuestionAt(index) == questions[index + 1]

\* let answers = {}, let otherSpecifications = {}: an absent key reads as
\* the empty text
NoAnswers ==
    [os |-> "", gpu |-> "", ram |-> "", cpu |-> "", storage |-> "",
     software |-> <<>>]

NoSpecifications ==
    [os |-> <<>>, gpu |-> <<>>, ram |-> <<>>, cpu |-> <<>>, storage |-> <<>>]

\* questionContainer with no question rendered
NoForm ==
    [q |-> -1, checked |-> "", hasSpec |-> FALSE, spec |-> <<>>,
     text |-> <<>>]

\* const imagens = [...]
imagens == <<"assets/roleta1.png", "assets/roleta2.png", "assets/roleta3.png">>

\* the roulette as loaded: let intervaloAnimacao = null (0 here, timer ids
\* are positive), let imageRevelada = false
\* intervals: the intervals the browser has active, each with the contador
\* of its closure; stops: the 2.5 s timers armed, oldest first, each with
\* the imageFinal of its closure; nextId: the id of the next timer
\* ignored, ticks: history of the roulette, read by the properties only
InitialRoleta ==
    [intervaloAnimacao |-> 0, imageRevelada |-> FALSE, src |-> "",
     intervals |-> {}, stops |-> <<>>, nextId |-> 1, ignored |-> 0,
     ticks |-> 0]

\* iniciarAnimacao(): a new interval, its contador at 0, kept in
\* intervaloAnimacao
iniciarAnimacao(r) ==
    [r EXCEPT !.intervaloAnimacao = r.nextId,
              !.intervals = @ \cup {[id |-> r.nextId, contador |-> 0]},
              !.nextId = @ + 1]

\* the callback of the interval: the next image in turn
onInterval(r, interval) ==
    [r EXCEPT !.src = imagens[(interval.contador % Len(imagens)) + 1],
              !.intervals = (@ \ {interval})
                  \cup {[interval EXCEPT !.contador = @ + 1]},
              !.ticks = @ + 1]

\* the lever as it would be were a click never turned away
LeverBusyNever(r) == FALSE

\* if (intervaloAnimacao || imageRevelada) return
LeverBusy(r) == r.intervaloAnimacao # 0 \/ r.imageRevelada

\* the click handler of the lever, imageFinal being the image drawn
onLeverClick(r, imageFinal) ==
    IF LeverBusy(r) THEN r
    ELSE [iniciarAnimacao(r) EXCEPT !.stops = Append(@, imageFinal)]

\* the callback of the 2.5 s timer: clearInterval(intervaloAnimacao), the
\* final image, imageRevelada
onStop(r) ==
    [r EXCEPT !.intervals = {i \in @ : i.id # r.intervaloAnimacao},
              !.intervaloAnimacao = 0,
              !.src = Head(r.stops),
              !.imageRevelada = TRUE,
              !.stops = Tail(@)]

\* the page as loaded: the welcome screen alone is visible
\* form: the inputs rendered in questionContainer (q: the index of their
\* question); fetches: the requests to the AI service in flight
InitialPage ==
    [currentQuestionIndex |-> 0, answers |-> NoAnswers,
     otherSpecifications |-> NoSpecifications,
     hidden |-> [welcome |-> FALSE, question |-> TRUE, results |-> TRUE,
                 prev |-> TRUE, icon |-> TRUE],
     nextLabel |-> "Proxima Pergunta", progress |-> 0, form |-> NoForm,
     loader |-> FALSE, fetches |-> 0, responseText |-> "",
     roleta |-> InitialRoleta]

\* a button is clickable while neither it nor the screen that holds it is
\* hidden
Clickable(p, button) ==
    CASE button = "start-test" -> ~p.hidden.welcome
      [] button = "next-btn" -> ~p.hidden.question
      [] button = "prev-btn" -> ~p.hidden.question /\ ~p.hidden.prev
      [] button = "restart-test" -> ~p.hidden.results

\* the inputs showQuestion renders for a question, filled from the answers
RenderForm(p, index) ==
    LET question == QuestionAt(index)
        answer == p.answers[question.id]
    IN  IF question.type = "radio"
        THEN LET isChecked == answer = "other"
                 specValue == p.otherSpecifications[question.id]
             IN  [q |-> index, checked |-> answer,
                  hasSpec |-> isChecked \/ specValue # <<>>,
                  spec |-> specValue, text |-> <<>>]
        ELSE [q |-> index, checked |-> "", hasSpec |-> FALSE,
              spec |-> <<>>, text |-> answer]

\* showQuestion(index): the previous button, the label of the next button
\* and the question's inputs; with no questions[index] it throws after the
\* two buttons are set, and the container keeps what it shows
showQuestion(p, index) ==
    LET buttons ==
            [p EXCEPT !.hidden.prev = (index = 0),
                      !.nextLabel = IF index = Len(questions) - 1
                                    THEN "Ver Resultados"
                                    ELSE "Proxima Pergunta"]
    IN  IF HasQuestion(index)
        THEN [buttons EXCEPT !.form = RenderForm(p, index)]
        ELSE buttons

\* updateProgress(): the width of the bar, in percent
updateProgress(p) ==
    [p EXCEPT !.progress =
        ((p.currentQuestionIndex + 1) * 100) \div Len(questions)]

\* handleRadioChange(questionId, value): the input of the 'other' option is
\* inserted, empty, or removed
handleRadioChange(form, value) ==
    IF value = "other"
    THEN IF form.hasSpec THEN form
         ELSE [form EXCEPT !.hasSpec = TRUE, !.spec = <<>>]
    ELSE [form EXCEPT !.hasSpec = FALSE, !.spec = <<>>]

\* validateAnswer(): "ok", "alert" (it returns false) or "throws"; it looks
\* up the inputs of questions[currentQuestionIndex] in the container
validateAnswer(p) ==
    IF ~HasQuestion(p.currentQuestionIndex) THEN "throws"
    ELSE LET question == QuestionAt(p.currentQuestionIndex)
             rendered == p.form.q = p.currentQuestionIndex
         IN  IF question.type = "radio"
             THEN IF ~rendered \/ p.form.checked = "" THEN "alert"
                  ELSE IF p.form.checked = "other"
                          /\ (~p.form.hasSpec \/ Trim(p.form.spec) = <<>>)
                  THEN "alert"
                  ELSE "ok"
             ELSE IF ~rendered THEN "throws"
                  ELSE IF Trim(p.form.text) = <<>> THEN "alert"
                  ELSE "ok"

\* saveAnswer(), called after validateAnswer() returned true
saveAnswer(p) ==
    LET question == QuestionAt(p.currentQuestionIndex)
    IN  IF question.type = "radio"
        THEN [p EXCEPT
                !.answers[question.id] = p.form.checked,
                !.otherSpecifications[question.id] =
                    IF p.form.checked = "other" /\ p.form.hasSpec
                    THEN Trim(p.form.spec) ELSE @]
        ELSE [p EXCEPT !.answers[question.id] = Trim(p.form.text)]

\* finishTest(): showLoader() and, through generateApiText(), the fetch of
\* getOpenAIResponse, which suspends at its await
finishTest(p) == [p EXCEPT !.loader = TRUE, !.fetches = @ + 1]

\* startTest()
startTest(p) ==
    showQuestion([p EXCEPT !.hidden.welcome = TRUE,
                           !.hidden.question = FALSE],
                 p.currentQuestionIndex)

\* goToNextQuestion()
goToNextQuestion(p) ==
    IF validateAnswer(p) # "ok" THEN p
    ELSE LET saved == saveAnswer(p)
         IN  IF p.currentQuestionIndex < Len(questions) - 1
             THEN LET moved == [saved EXCEPT !.currentQuestionIndex = @ + 1]
                  IN  updateProgress(
                          showQuestion(moved, moved.currentQuestionIndex))
             ELSE finishTest(saved)

\* goToPreviousQuestion(): when showQuestion throws, updateProgress is not
\* reached
goToPreviousQuestion(p) ==
    LET moved == [p EXCEPT !.currentQuestionIndex = @ - 1]
        shown == showQuestion(moved, moved.currentQuestionIndex)
    IN  IF HasQuestion(moved.currentQuestionIndex)
        THEN updateProgress(shown)
        ELSE shown

\* restartTest()
restartTest(p) ==
    [p EXCEPT !.currentQuestionIndex = 0,
              !.answers = NoAnswers,
              !.otherSpecifications = NoSpecifications,
              !.hidden.results = TRUE,
              !.hidden.welcome = FALSE,
              !.progress = 0,
              !.hidden.icon = TRUE]

\* getOpenAIResponse resumed with the parsed response: hideLoader(), the
\* results screen replaces the question screen, and the text of the first
\* choice, if there is one, is shown
onResponse(p, content) ==
    [p EXCEPT !.fetches = @ - 1,
              !.loader = FALSE,
              !.hidden.question = TRUE,
              !.hidden.results = FALSE,
              !.responseText = IF content # "" THEN content ELSE @]

\* getOpenAIResponse resumed with a failure of fetch or of response.json():
\* the catch block logs it
onFetchError(p) == [p EXCEPT !.fetches = @ - 1]

\* the options a user checks: the first one of the question, and at the
\* first question also 'other'
ChoiceInputs(question) ==
    {question.options[1]} \cup (IF question.id = "os" THEN {"other"} ELSE {})

\* the texts a user types: blanks only, and a name between blanks
TextInputs == { <<" ">>, <<" ", "G", "I", "M", "P", " ">> }

\* data.choices[0].message.content of a response, "" with no choice
ContentInputs == {"", "Compativel"}

----------------------------------------------------------------------------
(* Actions *)

\* A request of client c arrives in slot r and runs the route's middleware
\* up to the handler's first await: the limiter counts it and answers 429
\* or calls next(); the handler validates, builds the session, arms both
\* timers and calls the adapter.
Request(slots, r, c, body, stub) ==
    /\ Accepting(proc)
    /\ req[r].pc = "idle"
    /\ \A q \in slots : q < r => req[q].pc # "idle"
    /\ hits[c] < MaxPerWindow
    /\ win[c].made < MaxPerWindow
    /\ LET limiterFirst == RouteChain[1] = "limiter"
           counted == IF limiterFirst THEN StoreIncrement(hits, c) ELSE hits
           limited == limiterFirst /\ Limited(env, counted[c])
           arrived == [IdleSlot EXCEPT
                          !.client = c,
                          !.body = body,
                          !.totalHits = IF limiterFirst THEN counted[c] ELSE 0,
                          !.ord = win[c].made + 1]
       IN  /\ hits' = counted
           /\ req' = [req EXCEPT ![r] =
                        IF limited THEN Respond(arrived, RateLimitedResponse)
                        ELSE Handler(env, arrived, stub)]
           /\ win' = [win EXCEPT ![c] =
                        [@ EXCEPT !.made = @ + 1,
                                  !.admitted = IF limited THEN @ ELSE @ + 1]]
    /\ UNCHANGED <<env, proc, page>>

\* The adapter call settles by itself: before the deadline, or after it
AdapterSettle(r) ==
    /\ ~proc.exited
    /\ req[r].adapter = "pending"
    /\ req[r].stub.kind # "none"
    /\ \/ req[r].stub.delay = "early"
       \/ /\ req[r].stub.delay = "late"
          /\ req[r].raceTimer = "fired"
          /\ ~AbortPending(req[r])
    /\ req' = [req EXCEPT ![r] = SettleAdapter(env, req[r])]
    /\ UNCHANGED <<env, hits, win, proc, page>>

\* The abort timer fires, 15 s after the handler armed it
FireAbortTimer(r) ==
    /\ ~proc.exited
    /\ req[r].timeout = "armed"
    /\ ~EarlyPending(req[r])
    /\ req' = ControllerAbort(req, r)
    /\ UNCHANGED <<env, hits, win, proc, page>>

\* The race's timer fires; it was armed after the abort timer with the same
\* delay, so it fires after it
FireRaceTimer(r) ==
    /\ ~proc.exited
    /\ req[r].raceTimer = "armed"
    /\ req[r].timeout # "armed"
    /\ ~EarlyPending(req[r])
    /\ req' = [req EXCEPT ![r] = RaceTimerFired(env, req[r])]
    /\ UNCHANGED <<env, hits, win, proc, page>>

\* An adapter that honors the signal rejects its aborted call
AbortReject(r) ==
    /\ ~proc.exited
    /\ AbortPending(req[r])
    /\ req' = [req EXCEPT ![r] = SettleAborted(env, req[r])]
    /\ UNCHANGED <<env, hits, win, proc, page>>

\* The request is over: answered, no timer armed, no settlement to come
Retire(r) ==
    /\ ~proc.exited
    /\ req[r].pc = "done"
    /\ req[r].timeout # "armed"
    /\ req[r].raceTimer # "armed"
    /\ ~AbortPending(req[r])
    /\ ~(req[r].adapter = "pending" /\ req[r].stub.delay = "late")
    /\ req' = [req EXCEPT ![r] = IdleSlot]
    /\ UNCHANGED <<env, hits, win, proc, page>>

\* process.on("SIGTERM" | "SIGINT", () => server.close(() => process.exit(0)))
Signal(sig) ==
    /\ ~proc.exited
    /\ Len(proc.signals) < MaxSignals
    /\ proc' = [ServerClose(proc, req) EXCEPT !.signals = Append(@, sig)]
    /\ UNCHANGED <<env, hits, req, win, page>>

\* The closing server has no connection left and emits 'close': the
\* callbacks of server.close run, and the first one ends the process
EmitClose ==
    /\ ~proc.exited
    /\ proc.server = "closing"
    /\ ServerDrained(req)
    /\ proc' = IF proc.closeCallbacks > 0 THEN ProcessExit(ServerClosed(proc))
                ELSE ServerClosed(proc)
    /\ UNCHANGED <<env, hits, req, win, page>>

\* The window of client c elapses
WindowElapse(c) ==
    /\ ~proc.exited
    /\ hits[c] > 0
    /\ hits' = StoreReset(hits, c)
    /\ win' = [win EXCEPT ![c] =
                [made |-> 0, admitted |-> 0, elapsed |-> TRUE]]
    /\ UNCHANGED <<env, req, proc, page>>

\* The user clicks the start button: startTest
StartClick ==
    /\ Clickable(page, "start-test")
    /\ page' = startTest(page)
    /\ UNCHANGED <<env, hits, req, win, proc>>

\* The user clicks the next button: goToNextQuestion
NextClick ==
    /\ Clickable(page, "next-btn")
    /\ goToNextQuestion(page).fetches <= MaxFetches
    /\ page' = goToNextQuestion(page)
    /\ UNCHANGED <<env, hits, req, win, proc>>

\* The user clicks the previous button: goToPreviousQuestion
PrevClick ==
    /\ Clickable(page, "prev-btn")
    /\ page.currentQuestionIndex > -MaxUnderflow
    /\ page' = goToPreviousQuestion(page)
    /\ UNCHANGED <<env, hits, req, win, proc>>

\* The user clicks the restart button: restartTest
RestartClick ==
    /\ Clickable(page, "restart-test")
    /\ page' = restartTest(page)
    /\ UNCHANGED <<env, hits, req, win, proc>>

\* The user checks an option of the radio question shown: the browser
\* checks it and runs its onchange, handleRadioChange
CheckOption(value) ==
    /\ ~page.hidden.question
    /\ HasQuestion(page.form.q)
    /\ QuestionAt(page.form.q).type = "radio"
    /\ value \in ChoiceInputs(QuestionAt(page.form.q))
    /\ page' = [page EXCEPT !.form =
                    handleRadioChange([@ EXCEPT !.checked = value], value)]
    /\ UNCHANGED <<env, hits, req, win, proc>>

\* The user types into the input of the 'other' option
TypeSpecification(text) ==
    /\ ~page.hidden.question
    /\ page.form.hasSpec
    /\ page' = [page EXCEPT !.form.spec = text]
    /\ UNCHANGED <<env, hits, req, win, proc>>

\* The user types into the input of the text question shown
TypeText(text) ==
    /\ ~page.hidden.question
    /\ HasQuestion(page.form.q)
    /\ QuestionAt(page.form.q).type = "text"
    /\ page' = [page EXCEPT !.form.text = text]
    /\ UNCHANGED <<env, hits, req, win, proc>>

\* A request to the AI service is answered and its body parsed
FetchResponds(content) ==
    /\ page.fetches > 0
    /\ page' = onResponse(page, content)
    /\ UNCHANGED <<env, hits, req, win, proc>>

\* A request to the AI service fails
FetchFails ==
    /\ page.fetches > 0
    /\ page' = onFetchError(page)
    /\ UNCHANGED <<env, hits, req, win, proc>>

\* The user clicks the lever; Math.random() draws the final image
LeverClick(imageFinal) ==
    /\ LeverBusy(page.roleta) => page.roleta.ignored < MaxClicks
    /\ page' = [page EXCEPT !.roleta =
                    [onLeverClick(@, imageFinal) EXCEPT
                        !.ignored = IF LeverBusy(page.roleta)
                                    THEN @ + 1 ELSE @]]
    /\ UNCHANGED <<env, hits, req, win, proc>>

\* An active interval is due, 80 ms after its last run
TickInterval ==
    /\ page.roleta.ticks < MaxTicks
    /\ \E interval \in page.roleta.intervals :
           page' = [page EXCEPT !.roleta = onInterval(@, interval)]
    /\ UNCHANGED <<env, hits, req, win, proc>>

\* The oldest 2.5 s timer fires
StopAnimation ==
    /\ page.roleta.stops # <<>>
    /\ page' = [page EXCEPT !.roleta = onStop(@)]
    /\ UNCHANGED <<env, hits, req, win, proc>>

----------------------------------------------------------------------------
(* Specifications *)

\* the process has started: no hit counted, no request in flight
Started(slots, envs) ==
    /\ env \in envs
    /\ hits = [c \in Clients |-> 0]
    /\ req = [r \in slots |-> IdleSlot]
    /\ win = [c \in Clients |->
                [made |-> 0, admitted |-> 0, elapsed |-> FALSE]]
    /\ proc = Listening
    /\ page = InitialPage

Init == Started(SeqSlots, EnvInputs)

\* requests of one client, every input
Next ==
    \/ \E r \in SeqSlots, c \in SeqClients, body \in BodyInputs,
          stub \in StubInputs : Request(SeqSlots, r, c, body, stub)
    \/ \E r \in SeqSlots : AdapterSettle(r)
    \/ \E r \in SeqSlots : FireAbortTimer(r)
    \/ \E r \in SeqSlots : FireRaceTimer(r)
    \/ \E r \in SeqSlots : AbortReject(r)
    \/ \E r \in SeqSlots : Retire(r)
    \/ \E c \in SeqClients : WindowElapse(c)

Spec == Init /\ [][Next]_vars

\* concurrent requests of one client
NextConc ==
    \/ \E r \in ConcSlots, c \in SeqClients, body \in ConcBodyInputs,
          stub \in ConcStubInputs : Request(ConcSlots, r, c, body, stub)
    \/ \E r \in ConcSlots : AdapterSettle(r)
    \/ \E r \in ConcSlots : FireAbortTimer(r)
    \/ \E r \in ConcSlots : FireRaceTimer(r)
    \/ \E r \in ConcSlots : AbortReject(r)
    \/ \E r \in ConcSlots : Retire(r)
    \/ \E c \in SeqClients : WindowElapse(c)

InitConc ==
    Started(ConcSlots, {e \in EnvInputs : e.NODE_ENV = "development"})

SpecConc == InitConc /\ [][NextConc]_vars

\* requests of one client served one after another, with the adapter calls
\* that tell the deadline's cases apart
NextLive ==
    \/ \E r \in SeqSlots, c \in SeqClients, body \in ConcBodyInputs,
          stub \in LiveStubInputs : Request(SeqSlots, r, c, body, stub)
    \/ \E r \in SeqSlots : AdapterSettle(r)
    \/ \E r \in SeqSlots : FireAbortTimer(r)
    \/ \E r \in SeqSlots : FireRaceTimer(r)
    \/ \E r \in SeqSlots : AbortReject(r)
    \/ \E r \in SeqSlots : Retire(r)
    \/ \E c \in SeqClients : WindowElapse(c)

\* the event loop runs every timer that is due and every settlement of an
\* adapter call that is due before the deadline
TimersFire ==
    \A r \in SeqSlots :
        /\ WF_vars(FireAbortTimer(r))
        /\ WF_vars(FireRaceTimer(r))
        /\ WF_vars(AdapterSettle(r))

SpecLive == Init /\ [][NextLive]_vars /\ TimersFire

\* the adapter calls of the specification with termination signals
ShutStubInputs ==
    { Resolves("early", TRUE, ResultText("OK Compativel")),
      Never(FALSE) }

\* concurrent requests of one client within one window, and termination
\* signals
NextShut ==
    \/ \E r \in ConcSlots, c \in SeqClients, body \in ConcBodyInputs,
          stub \in ShutStubInputs : Request(ConcSlots, r, c, body, stub)
    \/ \E r \in ConcSlots : AdapterSettle(r)
    \/ \E r \in ConcSlots : FireAbortTimer(r)
    \/ \E r \in ConcSlots : FireRaceTimer(r)
    \/ \E r \in ConcSlots : Retire(r)
    \/ \E sig \in {"SIGTERM", "SIGINT"} : Signal(sig)
    \/ EmitClose

SpecShut == InitConc /\ [][NextShut]_vars

\* the body and the adapter calls of the specification with two clients
IsoBodyInputs ==
    { [message |-> Str(<<" ", "a", "b", "c", "d", "e", "\n">>),
       chatHistory |-> Undefined] }

IsoStubInputs ==
    { Rejects("early", TRUE, FetchFailedMessage),
      Never(FALSE) }

\* concurrent requests of two clients within one window
NextIso ==
    \/ \E r \in ConcSlots, c \in Clients, body \in IsoBodyInputs,
          stub \in IsoStubInputs : Request(ConcSlots, r, c, body, stub)
    \/ \E r \in ConcSlots : AdapterSettle(r)
    \/ \E r \in ConcSlots : FireAbortTimer(r)
    \/ \E r \in ConcSlots : FireRaceTimer(r)
    \/ \E r \in ConcSlots : Retire(r)

SpecIso == InitConc /\ [][NextIso]_vars

\* the questionnaire in the browser: clicks, typing and the answers of the
\* AI service
NextQuiz ==
    \/ StartClick
    \/ NextClick
    \/ PrevClick
    \/ RestartClick
    \/ \E value \in {"windows10", "gtx1060_up", "4gb", "intel_i5",
                      "less_50gb", "other"} : CheckOption(value)
    \/ \E text \in TextInputs : TypeSpecification(text)
    \/ \E text \in TextInputs : TypeText(text)
    \/ \E content \in ContentInputs : FetchResponds(content)
    \/ FetchFails

InitQuiz == Started(SeqSlots, {e \in EnvInputs : e.NODE_ENV = "development"})

SpecQuiz == InitQuiz /\ [][NextQuiz]_vars

\* the roulette in the browser: lever clicks and its two timers
NextRoleta ==
    \/ \E imageFinal \in {imagens[i] : i \in 1..Len(imagens)} :
          LeverClick(imageFinal)
    \/ TickInterval
    \/ StopAnimation

\* the browser runs a timer that is due
SpecRoleta == InitQuiz /\ [][NextRoleta]_vars /\ WF_vars(StopAnimation)

----------------------------------------------------------------------------
(* Vocabulary of the properties *)

Occurs(log, ev) == \E i \in 1..Len(log) : log[i] = ev

Count(log, ev) == Cardinality({i \in 1..Len(log) : log[i] = ev})

\* ev occurs in the log and nothing of evs occurs before its first occurrence
FirstBefore(log, ev, evs) ==
    \E i \in 1..Len(log) :
        /\ log[i] = ev
        /\ \A j \in 1..(i - 1) : log[j] \notin (evs \cup {ev})

Answered(s) == s.sent # <<>>

Answer(s) == s.sent[1]

\* the quota N the process was configured with
Quota == env.API_LIMIT.n

\* the claims' invalid message: missing, not a string, or trimmed length < 5
InvalidPayload(message) ==
    \/ message.t \in {"undefined", "null"}
    \/ message.t # "string"
    \/ Len(Trim(message.s)) < 5

\* the claims' model identifier: GEMINI_MODEL, or the fixed fallback
ResolvedModel ==
    IF env.GEMINI_MODEL \in {UnsetEnv, ""} THEN "gemini-pro"
    ELSE env.GEMINI_MODEL

----------------------------------------------------------------------------
(* C1: for every valid, admitted request, if the 15 s deadline fires       *)
(* before the adapter call has settled, the cancellation handle is         *)
(* invoked and the request is answered Timeout (504), whether the adapter  *)
(* ignores the cancellation or honors it by rejecting its call.            *)
C1_DeadlineYieldsTimeout ==
    \A r \in DOMAIN req :
        (req[r].pc = "done" /\ FirstBefore(req[r].log, "abort", {"settle"}))
        => /\ req[r].aborts >= 1
           /\ Answer(req[r]).status = 504

(* C2: every request whose message is missing, not a string or shorter     *)
(* than 5 characters once trimmed is answered InvalidInput (400,           *)
(* success:false) with zero upstream calls, whatever chatHistory holds.    *)
C2_InvalidAlways400 ==
    \A r \in DOMAIN req :
        (req[r].pc = "done" /\ InvalidPayload(req[r].body.message))
        => /\ Answer(req[r]).status = 400
           /\ Answer(req[r]).success = FALSE
           /\ req[r].sends = 0
           /\ req[r].model = ""

(* C2, amended: such a request makes zero upstream calls (no model, no     *)
(* session, no send, no timer) and is answered InvalidInput (400), unless  *)
(* it is beyond its client's quota in the window: then it is answered      *)
(* RateLimited (429).                                                      *)
C2_InvalidNoUpstream ==
    \A r \in DOMAIN req :
        (req[r].pc # "idle" /\ InvalidPayload(req[r].body.message))
        => /\ req[r].pc = "done"
           /\ req[r].sends = 0
           /\ req[r].model = ""
           /\ req[r].history = <<>>
           /\ req[r].timeout = "unset"
           /\ req[r].raceTimer = "unset"
           /\ req[r].sent = << IF req[r].ord > Quota
                               THEN RateLimitedResponse
                               ELSE ValidationResponse >>

\* an invalid message with a chatHistory, within quota, answered 400
C2_Witness ==
    \E r \in DOMAIN req :
        /\ req[r].pc = "done"
        /\ req[r].body.message.t = "string"
        /\ Len(req[r].body.message.s) >= 5
        /\ InvalidPayload(req[r].body.message)
        /\ req[r].body.chatHistory.t = "array"
        /\ req[r].ord <= Quota
        /\ Answer(req[r]).status = 400

(* C3: if the adapter call resolves before the deadline with a result that *)
(* carries a response, the answer is 200 with success:true, data.response  *)
(* the adapter's text and data.model the resolved model identifier.        *)
C3_SuccessEchoesResult ==
    \A r \in DOMAIN req :
        ( /\ req[r].adapter = "resolved"
          /\ req[r].stub.result.defined
          /\ req[r].stub.result.hasResponse
          /\ FirstBefore(req[r].log, "settle", {"abort", "deadline"}) )
        => /\ Len(req[r].sent) = 1
           /\ Answer(req[r]).status = 200
           /\ Answer(req[r]).success = TRUE
           /\ Answer(req[r]).data.def
           /\ Answer(req[r]).data.response = req[r].stub.result.text
           /\ Answer(req[r]).data.model = ResolvedModel

\* a success with a configured model, and the text of the adapter
C3_Witness ==
    \E r \in DOMAIN req :
        /\ req[r].adapter = "resolved"
        /\ req[r].stub.result.text = "OK Compativel"
        /\ Answered(req[r])
        /\ Answer(req[r]).status = 200
        /\ env.GEMINI_MODEL = "gemini-1.5-flash"

(* C4: when the adapter call resolves within the deadline, no timer the    *)
(* request started (abort timer, race timer) is still armed once the       *)
(* success response is sent.                                               *)
C4_TimersDisarmedOnSuccess ==
    \A r \in DOMAIN req :
        (Answered(req[r]) /\ Answer(req[r]).status = 200)
        => /\ req[r].timeout # "armed"
           /\ req[r].raceTimer # "armed"

\* a success answered while the race timer of that request is still armed
C4_Witness ==
    \E r \in DOMAIN req :
        /\ Answered(req[r])
        /\ Answer(req[r]).status = 200
        /\ req[r].timeout = "cleared"
        /\ req[r].raceTimer = "armed"

(* C5: every request that reaches the handler gets exactly one response;   *)
(* the first of the two race branches (adapter settlement, deadline) to    *)
(* settle decides it, a request whose deadline has fired has its response, *)
(* and a settlement that arrives after the response neither adds a         *)
(* response nor changes the one sent.                                      *)
C5_ExactlyOneResponse ==
    \A r \in DOMAIN req :
        /\ Len(req[r].sent) <= 1
        /\ Len(req[r].sent) = Count(req[r].log, "respond")
        /\ (req[r].pc = "done") <=> (Len(req[r].sent) = 1)
        /\ (req[r].raceTimer = "fired") => (req[r].pc = "done")
        /\ (req[r].pc = "done" /\ req[r].sends = 1) =>
             \/ /\ FirstBefore(req[r].log, "deadline", {"settle"})
                /\ Answer(req[r]).status = 504
                /\ Answer(req[r]).error = ErrTimeout
             \/ /\ FirstBefore(req[r].log, "settle", {"deadline"})
                /\ Answer(req[r]).success
                     <=> ( /\ FirstBefore(req[r].log, "settle", {"abort"})
                           /\ req[r].stub.kind = "resolve"
                           /\ req[r].stub.result.defined
                           /\ req[r].stub.result.hasResponse )

\* Timeout was answered, then the adapter call resolved: still one response
C5_Witness ==
    \E r \in DOMAIN req :
        /\ req[r].log = <<"send", "abort", "deadline", "respond", "settle">>
        /\ req[r].adapter = "resolved"
        /\ req[r].sent = <<CatchResponse(env, TimeoutMessage)>>

(* C6: with API_LIMIT = N the first N requests of a client within a window *)
(* pass the limiter and the (N+1)-th is answered RateLimited (429); once    *)
(* the window has elapsed the count starts anew and the next request       *)
(* passes.                                                                 *)
C6_QuotaPerWindow ==
    \A r \in DOMAIN req :
        (req[r].pc # "idle")
        => ( (Answered(req[r]) /\ Answer(req[r]).status = 429)
             <=> req[r].ord > Quota )

\* the (N+1)-th request was answered 429, the window elapsed, and the
\* client's next request passed
C6_Witness ==
    \E r1, r2 \in DOMAIN req :
        /\ req[r1].client = req[r2].client
        /\ req[r1].ord = Quota + 1
        /\ Answer(req[r1]).status = 429
        /\ win[req[r1].client].elapsed
        /\ win[req[r1].client].made = 1
        /\ hits[req[r1].client] = 1
        /\ req[r2].ord = 1
        /\ req[r2].pc = "awaiting"

(* C7: the limiter runs before validation and whatever the payload: a      *)
(* request with an invalid message is counted like a valid one, and a      *)
(* request over quota is answered 429 with no validation and no upstream   *)
(* work, even if its payload is invalid.                                   *)
C7_LimiterBeforeValidation ==
    \A r \in DOMAIN req :
        (req[r].pc # "idle")
        => /\ req[r].totalHits = req[r].ord
           /\ (req[r].ord > Quota)
              => /\ req[r].sent = <<RateLimitedResponse>>
                 /\ req[r].sends = 0
                 /\ req[r].model = ""
                 /\ req[r].timeout = "unset"
                 /\ req[r].raceTimer = "unset"

\* invalid requests used up the quota, and an invalid one over quota got 429
C7_Witness ==
    \E r \in DOMAIN req :
        /\ InvalidPayload(req[r].body.message)
        /\ req[r].ord = Quota + 1
        /\ req[r].totalHits = Quota + 1
        /\ Answer(req[r]).status = 429

(* C8: however the in-flight requests of a client interleave, its counter  *)
(* equals the number of requests it made in the window, and no more than N *)
(* of them are admitted to the handler in one window.                      *)
C8_AtomicCount ==
    \A c \in Clients :
        /\ hits[c] = win[c].made
        /\ win[c].admitted <= Quota
        /\ win[c].admitted = IF win[c].made < Quota THEN win[c].made ELSE Quota

\* a request of the client is suspended at the adapter call while another
\* one of the same client, the (N+1)-th of the window, is answered 429
C8_Witness ==
    \E r1, r2 \in DOMAIN req :
        /\ req[r1].client = req[r2].client
        /\ req[r1].pc = "awaiting"
        /\ req[r1].timeout = "fired"
        /\ req[r2].ord = Quota + 1
        /\ Answer(req[r2]).status = 429
        /\ hits[req[r1].client] = Quota + 1
        /\ win[req[r1].client].admitted = Quota

FixedErrors == {ErrRateLimited, ErrInvalidMessage, ErrTimeout, ErrGeneric}

(* C9: a response carries the details field (the raw error message) only   *)
(* if its kind is InternalError (500) and the process runs in development  *)
(* mode.                                                                   *)
C9_DetailsOnlyInternalError ==
    \A r \in DOMAIN req :
        (Answered(req[r]) /\ Answer(req[r]).details.def)
        => /\ Answer(req[r]).status = 500
           /\ env.NODE_ENV = "development"

(* C9, amended: a response carries the details field only if the process   *)
(* runs in development mode and the response is one of the catch block's   *)
(* (Timeout, InvalidInput classified from an upstream failure, or          *)
(* InternalError); the validation's InvalidInput and RateLimited never     *)
(* carry it, and every failure's error string is one of the fixed ones.    *)
C9_DetailsOnlyInDevelopment ==
    \A r \in DOMAIN req :
        Answered(req[r])
        => /\ Answer(req[r]).details.def
              => /\ env.NODE_ENV = "development"
                 /\ Answer(req[r]).status \in {400, 500, 504}
                 /\ Answer(req[r]).error \in {ErrTimeout, ErrGeneric}
           /\ (env.NODE_ENV # "development") => ~Answer(req[r]).details.def
           /\ (Answer(req[r]).status = 429) => ~Answer(req[r]).details.def
           /\ (Answer(req[r]).error = ErrInvalidMessage)
              => ~Answer(req[r]).details.def
           /\ (~Answer(req[r]).success) => Answer(req[r]).error \in FixedErrors

\* a Timeout answered in development mode, with the raw message as details
C9_Witness ==
    \E r \in DOMAIN req :
        /\ Answered(req[r])
        /\ Answer(req[r]).status = 504
        /\ Answer(req[r]).details = Some(TimeoutMessage)
        /\ env.NODE_ENV = "development"

(* C10: two runs of the same valid request against the same failing        *)
(* adapter behaviour end in the same error kind and HTTP status, however   *)
(* the timers and the adapter's settlement interleave.                     *)
C10_SameStubSameStatus ==
    \A r1, r2 \in DOMAIN req :
        ( /\ req[r1].pc = "done" /\ req[r2].pc = "done"
          /\ req[r1].sends = 1 /\ req[r2].sends = 1
          /\ req[r1].body = req[r2].body
          /\ req[r1].stub = req[r2].stub
          /\ req[r1].stub.kind # "resolve" )
        => Answer(req[r1]).status = Answer(req[r2]).status

\* the claims' adapter that never settles and ignores the cancellation signal
NeverIgnoring(stub) == stub.delay = "never" /\ ~stub.honors

(* C11: a valid, admitted request whose adapter call never settles and     *)
(* ignores the cancellation signal is eventually answered Timeout (504),   *)
(* and the answer is out in the step in which its deadline timer fires.    *)
C11_NeverBlocksPastDeadline ==
    /\ [](\A r \in SeqSlots :
            (NeverIgnoring(req[r].stub) /\ req[r].raceTimer = "fired")
            => /\ req[r].sent = <<CatchResponse(env, TimeoutMessage)>>
               /\ Answer(req[r]).status = 504)
    /\ \A r \in SeqSlots :
            (req[r].pc = "awaiting" /\ NeverIgnoring(req[r].stub))
            ~> ( /\ NeverIgnoring(req[r].stub)
                 /\ req[r].pc = "done"
                 /\ Answer(req[r]).status = 504 )

\* the adapter ignored the abort, the deadline fired and Timeout was answered
C11_Witness ==
    \E r \in DOMAIN req :
        /\ NeverIgnoring(req[r].stub)
        /\ req[r].adapter = "pending"
        /\ req[r].aborts = 1
        /\ req[r].log = <<"send", "abort", "deadline", "respond">>
        /\ Answer(req[r]).status = 504

(* C12: every response of POST /api/chat, for every outcome (200, 400,     *)
(* 500, 504), includes a timestamp and echoes the resolved model           *)
(* identifier.                                                             *)
C12_EveryResponseStamped ==
    \A r \in DOMAIN req :
        (Answered(req[r]) /\ Answer(req[r]).status \in {200, 400, 500, 504})
        => /\ Answer(req[r]).data.def
           /\ Answer(req[r]).data.timestamp # ""
           /\ Answer(req[r]).data.model = ResolvedModel

(* C12, amended: a response carries a timestamp and the resolved model     *)
(* identifier exactly when it is the success response (200); the failure   *)
(* responses (400, 429, 500, 504) carry neither.                           *)
C12_StampOnSuccessOnly ==
    \A r \in DOMAIN req :
        Answered(req[r])
        => /\ Answer(req[r]).data.def <=> (Answer(req[r]).status = 200)
           /\ (Answer(req[r]).status = 200)
              => /\ Answer(req[r]).success
                 /\ Answer(req[r]).data.timestamp = "ISO-8601"
                 /\ Answer(req[r]).data.model = ResolvedModel
           /\ (Answer(req[r]).status # 200)
              => /\ ~Answer(req[r]).success
                 /\ Answer(req[r]).data.timestamp = ""
                 /\ Answer(req[r]).data.model = ""

\* a stamped success with the fallback model of an empty GEMINI_MODEL
C12_Witness ==
    \E r \in DOMAIN req :
        /\ Answered(req[r])
        /\ Answer(req[r]).status = 200
        /\ Answer(req[r]).data.timestamp = "ISO-8601"
        /\ Answer(req[r]).data.model = "gemini-pro"
        /\ env.GEMINI_MODEL = ""

(* C13: on a termination signal (SIGTERM or SIGINT, possibly repeated) the *)
(* server accepts no new request, and the process exits only once every    *)
(* request that was in flight at the signal has its response: none is      *)
(* dropped by the shutdown.                                                *)
C13_GracefulShutdown ==
    /\ [](proc.exited
           => /\ \A r \in ConcSlots : req[r].pc # "awaiting"
              /\ \A r \in proc.atSignal :
                     \/ req[r].pc = "idle"
                     \/ req[r].pc = "done" /\ Len(req[r].sent) = 1)
    /\ [][ /\ (proc.signals # <<>>)
              => \A r \in ConcSlots :
                     (req[r].pc = "idle") => (req'[r].pc = "idle")
           /\ (proc.signals # <<>>)
              => \A r \in proc.atSignal :
                     (req[r].pc = "awaiting" /\ req'[r].pc # "awaiting")
                     => (req'[r].pc = "done" /\ Len(req'[r].sent) = 1)
           /\ (~proc.exited /\ proc'.exited)
              => \A r \in ConcSlots : req[r].pc # "awaiting" ]_vars

\* SIGTERM then SIGINT arrived with a request in flight, the request was
\* answered at its deadline, and then the process exited
C13_Witness ==
    /\ proc.exited
    /\ proc.signals = <<"SIGTERM", "SIGINT">>
    /\ \E r \in proc.atSignal :
           /\ req[r].pc = "done"
           /\ req[r].log = <<"send", "abort", "deadline", "respond">>
           /\ Answer(req[r]).status = 504

(* C14: whenever the adapter call settles before the deadline, with a      *)
(* result or with a failure, the request's deadline timers are disarmed    *)
(* and its cancellation handle is never invoked afterwards.                *)
C14_SettledDisarmsTimers ==
    \A r \in DOMAIN req :
        FirstBefore(req[r].log, "settle", {"abort", "deadline"})
        => /\ req[r].timeout # "armed"
           /\ req[r].raceTimer # "armed"
           /\ req[r].aborts = 0

(* C15: a Timeout (504) response is sent only if the request's deadline    *)
(* timer fired before the adapter call settled and the cancellation has    *)
(* been issued; an upstream failure that settles before the deadline is    *)
(* never reported as Timeout, whatever the text of its message.            *)
C15_TimeoutOnlyAfterDeadline ==
    \A r \in DOMAIN req :
        (Answered(req[r]) /\ Answer(req[r]).status = 504)
        => /\ FirstBefore(req[r].log, "deadline", {"settle"})
           /\ req[r].aborts >= 1

(* C16: in every request the cancellation handle (controller.abort) is     *)
(* invoked at most once, and in a request that ends in Timeout because the *)
(* adapter has not resolved it is invoked exactly once.                    *)
C16_AbortAtMostOnce ==
    \A r \in DOMAIN req :
        /\ req[r].aborts <= 1
        /\ req[r].aborts = Count(req[r].log, "abort")
        /\ (req[r].timeout = "fired") <=> (req[r].aborts = 1)
        /\ ( /\ Answered(req[r])
             /\ Answer(req[r]).status = 504
             /\ FirstBefore(req[r].log, "deadline", {"settle"}) )
           => req[r].aborts = 1

\* Timeout was answered while the adapter call, due after the deadline, is
\* still pending: one abort, issued before the answer
C16_Witness ==
    \E r \in DOMAIN req :
        /\ req[r].stub.delay = "late"
        /\ req[r].adapter = "pending"
        /\ Answered(req[r])
        /\ Answer(req[r]).status = 504
        /\ req[r].aborts = 1
        /\ FirstBefore(req[r].log, "abort", {"respond"})

\* the claims' session history: absent, or a sequence of turns
TurnsOrAbsent(chatHistory) ==
    \/ chatHistory.t = "undefined"
    \/ /\ chatHistory.t = "array"
       /\ \A i \in 1..Len(chatHistory.items) :
              chatHistory.items[i].t = "object"

(* C17: each request performs exactly one upstream send when it is         *)
(* admitted by the limiter and passes validation, and zero otherwise.      *)
C17_OneSendWhenValid ==
    \A r \in DOMAIN req :
        (req[r].pc # "idle")
        => ( (req[r].sends = 1)
             <=> (req[r].ord <= Quota /\ ~InvalidPayload(req[r].body.message)) )

(* C17, amended: each request performs at most one upstream send: exactly  *)
(* one when it is admitted by the limiter, passes validation and its       *)
(* chatHistory is absent or a sequence of turns, zero otherwise; no        *)
(* outcome triggers another send, and an answered request stays answered   *)
(* as it is.                                                               *)
C17_OneSendNoRetry ==
    /\ [](\A r \in SeqSlots :
            (req[r].pc # "idle")
            => /\ req[r].sends = Count(req[r].log, "send")
               /\ req[r].sends =
                    IF /\ req[r].ord <= Quota
                       /\ ~InvalidPayload(req[r].body.message)
                       /\ TurnsOrAbsent(req[r].body.chatHistory)
                    THEN 1 ELSE 0)
    /\ [][\A r \in SeqSlots :
            (req[r].pc = "done")
            => \/ req'[r] = IdleSlot
               \/ /\ req'[r].pc = "done"
                  /\ req'[r].sent = req[r].sent
                  /\ req'[r].sends = req[r].sends]_vars

\* an upstream failure was answered, both timers fired afterwards, and the
\* request still made its one send
C17_Witness ==
    \E r \in DOMAIN req :
        /\ req[r].stub.kind = "reject"
        /\ req[r].log = <<"send", "settle", "respond", "abort", "deadline">>
        /\ req[r].sends = 1
        /\ Answer(req[r]).status = 500

(* C18: concurrent requests share no state but the rate-limit counters: a  *)
(* step of one request (its arrival, the firing of its deadline timers,    *)
(* the settlement of its adapter call) leaves the outcome, the timers and  *)
(* the cancellation state of every other request unchanged, and a request  *)
(* of one client counts for that client alone.                             *)
C18_RequestsIsolated ==
    /\ [](\A r \in ConcSlots :
            (req[r].pc # "idle")
            => /\ req[r].aborts <= 1
               /\ (req[r].aborts = 1) <=> (req[r].timeout = "fired")
               /\ (Answered(req[r]) /\ Answer(req[r]).status = 429)
                  <=> (req[r].ord > Quota))
    /\ [][ /\ \A r1, r2 \in ConcSlots :
                (r1 # r2 /\ req'[r1] # req[r1]) => (req'[r2] = req[r2])
           /\ \A r \in ConcSlots :
                (req[r].pc = "idle" /\ req'[r].pc # "idle")
                => \A c \in Clients :
                       hits'[c] = IF c = req'[r].client
                                  THEN hits[c] + 1 ELSE hits[c]
           /\ (\A r \in ConcSlots : req[r].pc = "idle" => req'[r].pc = "idle")
              => hits' = hits ]_vars

\* the deadline of one client's request fired and Timeout was answered,
\* while the request of the other client still waits with its timers armed
C18_Witness ==
    \E r1, r2 \in DOMAIN req :
        /\ req[r1].client # req[r2].client
        /\ req[r1].log = <<"send", "abort", "deadline", "respond">>
        /\ req[r1].aborts = 1
        /\ req[r2].pc = "awaiting"
        /\ req[r2].timeout = "armed"
        /\ req[r2].raceTimer = "armed"
        /\ req[r2].aborts = 0
        /\ hits[req[r1].client] = 1
        /\ hits[req[r2].client] = 1

(* C19: the session history passed to the adapter is the request's         *)
(* chatHistory mapped 1:1 in the same order: same length, and the i-th     *)
(* turn has the role and the content of chatHistory[i]; an absent          *)
(* chatHistory yields an empty history.                                    *)
C19_HistoryMappedInOrder ==
    \A r \in DOMAIN req :
        (req[r].sends = 1)
        => LET given == req[r].body.chatHistory
               passed == req[r].history
           IN  /\ (given.t = "undefined") => (passed = <<>>)
               /\ (given.t = "array")
                  => /\ Len(passed) = Len(given.items)
                     /\ \A i \in 1..Len(given.items) :
                            /\ passed[i].role = given.items[i].role
                            /\ Len(passed[i].parts) = 1
                            /\ passed[i].parts[1].text = given.items[i].content

\* a request sent with the two turns of its chatHistory, user turn first
C19_Witness ==
    \E r \in DOMAIN req :
        /\ req[r].sends = 1
        /\ req[r].body.chatHistory.t = "array"
        /\ Len(req[r].history) = 2
        /\ req[r].history[1].role = "user"
        /\ req[r].history[2].parts[1].text = "ola"

\* the claims' answer that fails validation: no option checked, 'other'
\* checked with nothing specified, or a blank text
AnswerFails(p) ==
    LET question == QuestionAt(p.currentQuestionIndex)
    IN  IF question.type = "radio"
        THEN \/ p.form.q # p.currentQuestionIndex
             \/ p.form.checked = ""
             \/ p.form.checked = "other" /\ Trim(p.form.spec) = <<>>
        ELSE Trim(p.form.text) = <<>>

(* C20: after any sequence of start, next, previous and restart clicks the *)
(* UI allows, currentQuestionIndex stays within 0 .. questions.length-1,   *)
(* and a next click whose answer fails validation leaves                   *)
(* currentQuestionIndex and answers unchanged.                             *)
C20_IndexInRange ==
    /\ page.currentQuestionIndex >= 0
    /\ page.currentQuestionIndex <= Len(questions) - 1
    /\ (Clickable(page, "next-btn") /\ AnswerFails(page))
       => /\ goToNextQuestion(page).currentQuestionIndex
               = page.currentQuestionIndex
          /\ goToNextQuestion(page).answers = page.answers

\* the screens that are visible
VisibleScreens(p) ==
    {screen \in {"welcome", "question", "results"} : ~p.hidden[screen]}

(* C21: in every reachable state at most one of the welcome, question and  *)
(* results screens is visible, however the clicks (start, next, restart)   *)
(* interleave with the completion of the AI requests finishTest started,   *)
(* a response that arrives after a restart included.                       *)
C21_OneScreenVisible == Cardinality(VisibleScreens(page)) <= 1

(* C22: for any sequence of lever clicks interleaved with the timers, at   *)
(* most one animation interval is ever active, a click while the animation *)
(* runs or after the image is revealed changes nothing, every started      *)
(* animation is stopped by its 2.5 s timer, and once imageRevelada is true *)
(* the displayed image never changes again.                                *)
C22_RouletteOnce ==
    /\ [](LET r == page.roleta
          IN  /\ Cardinality(r.intervals) <= 1
              /\ Len(r.stops) = Cardinality(r.intervals)
              /\ (r.intervaloAnimacao # 0)
                 <=> (\E i \in r.intervals : i.id = r.intervaloAnimacao)
              /\ (r.intervals # {} \/ r.imageRevelada)
                 => \A imageFinal \in {imagens[i] : i \in 1..Len(imagens)} :
                        onLeverClick(r, imageFinal) = r
              /\ r.imageRevelada => (r.intervals = {} /\ r.stops = <<>>))
    /\ [][ /\ page.roleta.imageRevelada
              => /\ page'.roleta.imageRevelada
                 /\ page'.roleta.src = page.roleta.src
           /\ (page.roleta.stops # <<>> /\ page'.roleta.stops = <<>>)
              => /\ page'.roleta.intervals = {}
                 /\ page'.roleta.src = Head(page.roleta.stops) ]_vars
    /\ (page.roleta.intervals # {})
        ~> (page.roleta.intervals = {} /\ page.roleta.imageRevelada)

\* the animation ran through the images, clicks were turned away while it
\* ran, its timer stopped it and the final image is shown
C22_Witness ==
    /\ page.roleta.imageRevelada
    /\ page.roleta.ticks > Len(imagens)
    /\ page.roleta.ignored = 2
    /\ page.roleta.nextId = 2
    /\ page.roleta.intervals = {}
    /\ page.roleta.src = "assets/roleta2.png"

====
